---------------------------- MODULE Spec2Model ----------------------------
(***************************************************************************)
(* A model of twarc_csv.py: DataFrameConverter (normalisation of a tweet,  *)
(* expansion of its referenced tweets, deduplication, reconciliation of a  *)
(* batch against the column schema, cell encoding) and CSVConverter (the   *)
(* line reader, the chunking and the incremental writer).                  *)
(*                                                                         *)
(* JSON values are tagged records [ty, v]; a JSON object is an ordered     *)
(* sequence of <<key, value>> pairs, as a Python dict keeps insertion      *)
(* order; a string is a sequence of characters.                            *)
(***************************************************************************)
EXTENDS Integers, Sequences, FiniteSets, TLC

VARIABLES
    cfg,          \* the DataFrameConverter / CSVConverter options of the run
    pc,           \* position in CSVConverter.process, or in a unit run
    infile,       \* the lines read so far (the input is chosen line by line)
    batch,        \* the parsed objects of the chunk being gathered
    counts,       \* DataFrameConverter.counts
    dataset_ids,  \* DataFrameConverter.dataset_ids
    first_batch,  \* the local flag of CSVConverter.process
    pending,      \* the table returned by converter.process, not yet written
    outfile,      \* what has been written: header and data lines
    last,         \* what the last call of converter.process saw and returned
    hist,         \* every tweet handed to _process_tweets so far, in order
    arg,          \* unit runs: the input of the function under study
    res,          \* unit runs: its result
    chunks,       \* every chunk handed to converter.process so far, in order
    objs          \* the objects of a program that builds several converters

vars == <<cfg, pc, infile, batch, counts, dataset_ids, first_batch, pending,
          outfile, last, hist, arg, res, chunks, objs>>

---------------------------------------------------------------------------
(* Bounds of the model.                                                    *)

MaxLines == 3     \* lines of one input file
MaxBatch == 2     \* largest batch_size tried
MaxRefs  == 2     \* longest referenced_tweets list of a unit run
MaxText  == 3     \* longest string cell of a unit run
MaxConverters == 2   \* converters a program builds itself
MaxPipes == 2        \* CSVConverter pipelines a program builds
MaxName == 3         \* longest extra_input_columns and output_columns string
MaxCalls == 2        \* calls of process in a program with several objects

---------------------------------------------------------------------------
(* JSON values.                                                            *)

Str(s)   == [ty |-> "str",  v |-> s]
Dict(d)  == [ty |-> "dict", v |-> d]
List(l)  == [ty |-> "list", v |-> l]
Num(n)   == [ty |-> "int",  v |-> <<n>>]
None     == [ty |-> "none", v |-> <<>>]
NaN      == [ty |-> "nan",  v |-> <<>>]

\* Python truth value of a JSON value
Truthy(x) ==
    CASE x.ty = "none" -> FALSE
      [] x.ty = "nan"  -> TRUE
      [] x.ty = "int"  -> x.v[1] # 0
      [] OTHER         -> Len(x.v) > 0

\* dict operations on an ordered sequence of <<key, value>> pairs
Has(d, k)  == \E i \in 1..Len(d) : d[i][1] = k
Keys(d)    == [i \in 1..Len(d) |-> d[i][1]]
Get(d, k)  == d[CHOOSE i \in 1..Len(d) : d[i][1] = k][2]
GetOr(d, k, dflt) == IF Has(d, k) THEN Get(d, k) ELSE dflt
Put(d, k, x) ==
    IF Has(d, k)
    THEN [i \in 1..Len(d) |-> IF d[i][1] = k THEN <<k, x>> ELSE d[i]]
    ELSE Append(d, <<k, x>>)
Pop(d, k)  == SelectSeq(d, LAMBDA p : p[1] # k)

Last(s) == s[Len(s)]
Reverse(s) == [i \in 1..Len(s) |-> s[Len(s) + 1 - i]]
Range(s) == {s[i] : i \in 1..Len(s)}

\* the elements of s, each kept at its first occurrence
RECURSIVE Uniq(_)
Uniq(s) ==
    IF s = <<>> THEN <<>>
    ELSE LET r == Uniq(SubSeq(s, 1, Len(s) - 1))
         IN  IF Last(s) \in Range(r) THEN r ELSE Append(r, Last(s))

RECURSIVE Flat(_)
Flat(ss) == IF ss = <<>> THEN <<>> ELSE Head(ss) \o Flat(Tail(ss))

RECURSIVE Sum(_)
Sum(s) == IF s = <<>> THEN 0 ELSE Head(s) + Sum(Tail(s))

---------------------------------------------------------------------------
(* DataFrameConverter._format_tweet                                        *)

OfType(refs, kind) == SelectSeq(refs, LAMBDA r : Get(r.v, "type") = Str(<<kind>>))

\* a selection of the first entry of a kind
FirstOfType(refs, kind) ==
    LET sel == OfType(refs, kind) IN IF sel = <<>> THEN None ELSE Head(sel)

\* rts[-1] if rts else None
LastOfType(refs, kind) ==
    LET sel == OfType(refs, kind) IN IF sel = <<>> THEN None ELSE Last(sel)

\* dict(ChainMap(*[{r["type"]: {"id": r["id"]}} for r in refs])): a ChainMap
\* iterates its maps from the last to the first, and looks a key up in the
\* first map that has it
ChainMapDict(refs) ==
    LET types == Uniq(Reverse([i \in 1..Len(refs) |-> Get(refs[i].v, "type")]))
        first(t) == refs[CHOOSE i \in 1..Len(refs) :
                            /\ Get(refs[i].v, "type") = t
                            /\ \A j \in 1..(i - 1) : Get(refs[j].v, "type") # t]
    IN  [i \in 1..Len(types) |->
            <<types[i].v[1], Dict(<<<<"id", Get(first(types[i]).v, "id")>>>>)>>]

\* lines 261-262 and 267-268: the author of the selected entry
WithUserId(tweet, key, entry) ==
    IF Truthy(entry) /\ Has(entry.v, "author_id")
    THEN Put(tweet, key, Get(entry.v, "author_id"))
    ELSE tweet

MergedFields == <<"text", "entities", "attachments", "context_annotations",
                  "public_metrics">>

\* lines 272-280: tweet[k] = retweeted_tweet.pop(k, None) for the five fields
RECURSIVE MergeInto(_, _, _)
MergeInto(tweet, entry, ks) ==
    IF ks = <<>> THEN tweet
    ELSE MergeInto(Put(tweet, Head(ks), GetOr(entry.v, Head(ks), None)),
                   entry, Tail(ks))

\* a merge that does not look at the option
MergeRetweetAlways(tweet, entry, merge_retweets) ==
    IF Truthy(entry) THEN MergeInto(tweet, entry, MergedFields) ELSE tweet

MergeRetweet(tweet, entry, merge_retweets) ==
    IF Truthy(entry) /\ merge_retweets
    THEN MergeInto(tweet, entry, MergedFields)
    ELSE tweet

\* lines 294-299: remove empty objects
DropIfEmpty(tweet, k) ==
    IF Has(tweet, k) /\ ~Truthy(Get(tweet, k)) THEN Pop(tweet, k) ELSE tweet

FormatTweet(tweet, merge_retweets) ==
    LET t0 == Pop(Pop(tweet, "pinned_tweet"), "in_reply_to_user")
        t1 == IF Has(t0, "referenced_tweets")
              THEN LET refs == Get(t0, "referenced_tweets").v
                       rt   == LastOfType(refs, "retweeted")
                       qt   == LastOfType(refs, "quoted")
                       a    == WithUserId(t0, "retweeted_user_id", rt)
                       b    == WithUserId(a, "quoted_user_id", qt)
                       c    == MergeRetweet(b, rt, merge_retweets)
                   IN  Put(c, "referenced_tweets", Dict(ChainMapDict(refs)))
              ELSE Put(t0, "referenced_tweets", Dict(<<>>))
        t2 == Pop(t1, "type")
    IN  DropIfEmpty(DropIfEmpty(DropIfEmpty(t2, "attachments"), "entities"),
                    "public_metrics")

---------------------------------------------------------------------------
(* DataFrameConverter._inline_referenced_tweets                            *)

\* referenced_tweet["__twarc"] = tweet["__twarc"] if "__twarc" in tweet else None
WithTwarc(tweet, entry) == Dict(Put(entry.v, "__twarc", GetOr(tweet, "__twarc", None)))

\* an expander for which the three default fields are enough
AvailableWithThree(entry) == Len(entry.v) > 2

\* more than the 3 default fields
Available(entry) == Len(entry.v) > 3

\* an expander that yields the tweet itself before the tweets it refers to
InlineParentFirst(tweet, inline, merge_retweets) ==
    IF Has(tweet, "referenced_tweets") /\ inline
    THEN LET refs  == Get(tweet, "referenced_tweets").v
             refs2 == [i \in 1..Len(refs) |-> WithTwarc(tweet, refs[i])]
             avail == SelectSeq(refs2, Available)
         IN  [rows        |-> <<FormatTweet(tweet, merge_retweets)>>
                                \o [i \in 1..Len(avail) |->
                                      FormatTweet(avail[i].v, merge_retweets)],
              referenced  |-> Len(refs),
              unavailable |-> Len(refs) - Len(avail)]
    ELSE [rows        |-> <<FormatTweet(tweet, merge_retweets)>>,
          referenced  |-> 0,
          unavailable |-> 0]

\* The rows the generator yields, in order, and what it adds to the counters.
\* The loop writes __twarc into the entries of the tweet itself, so the parent
\* is formatted with the entries as the loop left them.
InlineReferencedTweets(tweet, inline, merge_retweets) ==
    IF Has(tweet, "referenced_tweets") /\ inline
    THEN LET refs  == Get(tweet, "referenced_tweets").v
             refs2 == [i \in 1..Len(refs) |-> WithTwarc(tweet, refs[i])]
             avail == SelectSeq(refs2, Available)
             tw2   == Put(tweet, "referenced_tweets", List(refs2))
         IN  [rows        |-> Append([i \in 1..Len(avail) |->
                                         FormatTweet(avail[i].v, merge_retweets)],
                                     FormatTweet(tw2, merge_retweets)),
              referenced  |-> Len(refs),
              unavailable |-> Len(refs) - Len(avail)]
    ELSE [rows        |-> <<FormatTweet(tweet, merge_retweets)>>,
          referenced  |-> 0,
          unavailable |-> 0]

---------------------------------------------------------------------------
(* DataFrameConverter._process_tweets                                      *)

\* The state of the loop: the rows yielded so far, dataset_ids and the three
\* counters the loop changes.

\* a loop body that never records the identifier it has seen
ProcessTweetNoAdd(tweet, st, allow_duplicates) ==
    IF Has(tweet, "id")
    THEN [st EXCEPT !.out = Append(@, tweet), !.tweets = @ + 1]
    ELSE [st EXCEPT !.non_tweets = @ + 1]

\* a loop body that records the identifier before it looks it up
ProcessTweetAddFirst(tweet, st, allow_duplicates) ==
    IF Has(tweet, "id")
    THEN [st EXCEPT !.out = IF allow_duplicates THEN Append(@, tweet) ELSE @,
                    !.ids = @ \cup {Get(tweet, "id")},
                    !.tweets = @ + 1,
                    !.duplicates = @ + 1]
    ELSE [st EXCEPT !.non_tweets = @ + 1]

\* a loop that counts a record without id among the tweets as well
ProcessTweetCountsAll(tweet, st, allow_duplicates) ==
    IF Has(tweet, "id")
    THEN [out        |-> IF allow_duplicates \/ Get(tweet, "id") \notin st.ids
                         THEN Append(st.out, tweet)
                         ELSE st.out,
          ids        |-> st.ids \cup {Get(tweet, "id")},
          tweets     |-> st.tweets + 1,
          duplicates |-> st.duplicates
                         + (IF Get(tweet, "id") \in st.ids THEN 1 ELSE 0),
          non_tweets |-> st.non_tweets]
    ELSE [st EXCEPT !.non_tweets = @ + 1, !.tweets = @ + 1]

\* a loop that counts a duplicate only when it filters it out
ProcessTweetCountsDropped(tweet, st, allow_duplicates) ==
    IF Has(tweet, "id")
    THEN [out        |-> IF allow_duplicates \/ Get(tweet, "id") \notin st.ids
                         THEN Append(st.out, tweet)
                         ELSE st.out,
          ids        |-> st.ids \cup {Get(tweet, "id")},
          tweets     |-> st.tweets + 1,
          duplicates |-> st.duplicates
                         + (IF ~allow_duplicates /\ Get(tweet, "id") \in st.ids
                            THEN 1 ELSE 0),
          non_tweets |-> st.non_tweets]
    ELSE [st EXCEPT !.non_tweets = @ + 1]

\* lines 308-321, the body of the loop for one tweet
ProcessTweet(tweet, st, allow_duplicates) ==
    IF Has(tweet, "id")
    THEN LET tweet_id == Get(tweet, "id")
             seen     == tweet_id \in st.ids
         IN  [out        |-> IF allow_duplicates \/ ~seen
                             THEN Append(st.out, tweet)
                             ELSE st.out,
              ids        |-> st.ids \cup {tweet_id},
              tweets     |-> st.tweets + 1,
              duplicates |-> st.duplicates + (IF seen THEN 1 ELSE 0),
              non_tweets |-> st.non_tweets]
    ELSE [st EXCEPT !.non_tweets = @ + 1]

\* for tweet in tweets
RECURSIVE ProcessTweets(_, _, _)
ProcessTweets(tweets, st, allow_duplicates) ==
    IF tweets = <<>> THEN st
    ELSE ProcessTweets(Tail(tweets), ProcessTweet(Head(tweets), st, allow_duplicates),
                       allow_duplicates)

---------------------------------------------------------------------------
(* pandas: json_normalize, reindex                                         *)

\* a nested object below the top level: its leaves in key order, each under
\* the dotted path that leads to it
RECURSIVE FlattenNested(_, _)
FlattenNested(d, prefix) ==
    Flat([i \in 1..Len(d) |->
            IF d[i][2].ty = "dict"
            THEN FlattenNested(d[i][2].v, prefix \o "." \o d[i][1])
            ELSE <<<<prefix \o "." \o d[i][1], d[i][2]>>>>])

\* one record: the keys that hold no object stay in place, the leaves of the
\* objects follow them
FlattenRecord(d) ==
    SelectSeq(d, LAMBDA p : p[2].ty # "dict")
      \o Flat([i \in 1..Len(d) |->
                 IF d[i][2].ty = "dict" THEN FlattenNested(d[i][2].v, d[i][1])
                 ELSE <<>>])

\* pd.json_normalize(list): the columns are the keys in the order of their
\* first appearance, a key a record lacks is NaN in its row
JsonNormalize(records) ==
    LET flat == [i \in 1..Len(records) |-> FlattenRecord(records[i])]
        cols == Uniq(Flat([i \in 1..Len(flat) |-> Keys(flat[i])]))
    IN  [columns |-> cols,
         rows    |-> [i \in 1..Len(flat) |->
                        [j \in 1..Len(cols) |-> GetOr(flat[i], cols[j], NaN)]]]

ColumnIndex(cols, c) == CHOOSE j \in 1..Len(cols) : cols[j] = c

\* a reindex that leaves the table as json_normalize built it
ReindexKeepOrder(df, cols) == df

\* _df.reindex(columns=cols)
Reindex(df, cols) ==
    [columns |-> cols,
     rows    |-> [i \in 1..Len(df.rows) |->
                    [j \in 1..Len(cols) |->
                       IF cols[j] \in Range(df.columns)
                       THEN df.rows[i][ColumnIndex(df.columns, cols[j])]
                       ELSE NaN]]]

\* pd.DataFrame(columns=cols)
EmptyFrame(cols) == [columns |-> cols, rows |-> <<>>]

---------------------------------------------------------------------------
(* DataFrameConverter._process_dataframe                                   *)

CR == "CR"
LF == "LF"
BS == "\\"
QT == "\""

\* x.replace("\r", "").replace("\n", r"\n")
RECURSIVE Remove(_, _)
Remove(s, ch) ==
    IF s = <<>> THEN <<>>
    ELSE (IF Head(s) = ch THEN <<>> ELSE <<Head(s)>>) \o Remove(Tail(s), ch)

RECURSIVE Replace(_, _, _)
Replace(s, ch, by) ==
    IF s = <<>> THEN <<>>
    ELSE (IF Head(s) = ch THEN by ELSE <<Head(s)>>) \o Replace(Tail(s), ch, by)

\* an escape that leaves the carriage returns in
NewlineEscapeKeepCR(s) == Replace(s, LF, <<BS, "n">>)

NewlineEscape(s) == Replace(Remove(s, CR), LF, <<BS, "n">>)

\* json.dumps of a string: quoted, with the control characters, the quote and
\* the backslash escaped
RECURSIVE JsonString(_)
JsonString(s) ==
    IF s = <<>> THEN <<>>
    ELSE (CASE Head(s) = LF -> <<BS, "n">>
            [] Head(s) = CR -> <<BS, "r">>
            [] Head(s) = BS -> <<BS, BS>>
            [] Head(s) = QT -> <<BS, QT>>
            [] OTHER        -> <<Head(s)>>) \o JsonString(Tail(s))

RECURSIVE JsonDumps(_)
RECURSIVE JsonJoin(_)
JsonJoin(parts) ==
    IF parts = <<>> THEN <<>>
    ELSE IF Len(parts) = 1 THEN Head(parts)
    ELSE Head(parts) \o <<",", " ">> \o JsonJoin(Tail(parts))

\* json.dumps(x), as a sequence of characters (a number and an object key
\* stand as one token each)
JsonDumps(x) ==
    CASE x.ty = "str"  -> <<QT>> \o JsonString(x.v) \o <<QT>>
      [] x.ty = "int"  -> <<ToString(x.v[1])>>
      [] x.ty = "none" -> <<"null">>
      [] x.ty = "nan"  -> <<"NaN">>
      [] x.ty = "list" -> <<"[">> \o JsonJoin([i \in 1..Len(x.v) |-> JsonDumps(x.v[i])])
                             \o <<"]">>
      [] x.ty = "dict" -> <<"{">> \o JsonJoin([i \in 1..Len(x.v) |->
                                       <<QT, x.v[i][1], QT, ":", " ">>
                                          \o JsonDumps(x.v[i][2])])
                             \o <<"}">>

\* what applymap(..., na_action="ignore") leaves alone
IsNA(x) == x.ty \in {"none", "nan"}

\* pd.api.types.is_list_like
IsListLike(x) == x.ty \in {"list", "dict"}

\* the lambdas of lines 330-351, applied to one cell in the order of the code
EncodeCell(x, c) ==
    IF IsNA(x) THEN x
    ELSE IF c.json_encode_all THEN Str(JsonDumps(x))
    ELSE LET y == IF x.ty = "str"
                  THEN (IF c.json_encode_text THEN Str(JsonDumps(x))
                        ELSE Str(NewlineEscape(x.v)))
                  ELSE x
         IN  IF c.json_encode_lists /\ IsListLike(y) THEN Str(JsonDumps(y)) ELSE y

ProcessDataframe(df, c) ==
    [columns |-> df.columns,
     rows    |-> [i \in 1..Len(df.rows) |->
                    [j \in 1..Len(df.rows[i]) |-> EncodeCell(df.rows[i][j], c)]]]

---------------------------------------------------------------------------
(* DataFrameConverter.__init__ and DataFrameConverter.process              *)

\* self.columns for input_data_type "tweets" and no extra input columns: a
\* selection of DEFAULT_TWEET_COLUMNS, in its order. The text block ends with
\* a line break, so split("\n") leaves an empty name as the last column.
columns ==
    <<"id", "referenced_tweets.replied_to.id", "referenced_tweets.retweeted.id",
      "referenced_tweets.quoted.id", "author_id", "retweeted_user_id",
      "quoted_user_id", "text", "public_metrics.like_count",
      "context_annotations", "__twarc.url", "">>

\* self.counts as __init__ creates it (retweets, quotes, replies, input_columns
\* and output_columns, which no step changes, are left out)
InitialCounts ==
    [lines |-> 0, tweets |-> 0, referenced_tweets |-> 0, unavailable |-> 0,
     non_tweets |-> 0, parse_errors |-> 0, duplicates |-> 0, rows |-> 0]

\* for item in objects: for tweet in ensure_flattened(item): yield tweet.
\* ensure_flattened belongs to twarc; an object that is already one flat
\* tweet comes back as that one tweet.
GenerateTweets(objects) == Flat([i \in 1..Len(objects) |-> <<objects[i]>>])

\* set(_df.columns) - set(self.columns)
Diff(df, cols) == Range(df.columns) \ Range(cols)

\* a rejection that still returns the rows, cut to the schema
RejectedFrameKeepRows(df, cols) ==
    [columns |-> cols,
     rows    |-> [i \in 1..Len(df.rows) |->
                    [j \in 1..Len(cols) |->
                       IF cols[j] \in Range(df.columns)
                       THEN df.rows[i][ColumnIndex(df.columns, cols[j])]
                       ELSE NaN]]]

\* what line 379 returns for a batch with unexpected columns
RejectedFrame(df, cols) == EmptyFrame(cols)

\* a count of the columns of the table, not of its rows
RejectedCountColumns(df) == Len(df.columns)

\* what line 378 adds to parse_errors
RejectedCount(df) == Len(df.rows)

\* process(objects) on a converter with options c, identifier set ids and
\* counters cnt: the table it returns and the state it leaves, with the
\* intermediate values the generators pass along. The stages are written as
\* one operator each, every stage receiving the values of the stages before.

\* lines 365-381, on the normalised table df
ProcessFrame(expanded, st, df, c, cnt) ==
    LET rejected == Cardinality(Diff(df, columns)) > 0
    IN  [df       |-> IF rejected THEN RejectedFrame(df, columns)
                      ELSE ProcessDataframe(Reindex(df, columns), c),
         ids      |-> st.ids,
         counts   |-> [cnt EXCEPT
                         !.tweets = st.tweets,
                         !.duplicates = st.duplicates,
                         !.non_tweets = st.non_tweets,
                         !.referenced_tweets =
                             @ + Sum([i \in 1..Len(expanded) |-> expanded[i].referenced]),
                         !.unavailable =
                             @ + Sum([i \in 1..Len(expanded) |-> expanded[i].unavailable]),
                         !.parse_errors =
                             @ + (IF rejected THEN RejectedCount(df) ELSE 0)],
         yielded  |-> Flat([i \in 1..Len(expanded) |-> expanded[i].rows]),
         batch    |-> st.out,
         rejected |-> rejected]

\* line 363: _df = pd.json_normalize(list(tweet_batch))
ProcessDeduplicated(expanded, st, c, cnt) ==
    ProcessFrame(expanded, st, JsonNormalize(st.out), c, cnt)

\* lines 359-362: every tweet the expander yields goes through _process_tweets
ProcessExpanded(expanded, c, ids, cnt) ==
    ProcessDeduplicated(
        expanded,
        ProcessTweets(Flat([i \in 1..Len(expanded) |-> expanded[i].rows]),
                      [out |-> <<>>, ids |-> ids, tweets |-> cnt.tweets,
                       duplicates |-> cnt.duplicates, non_tweets |-> cnt.non_tweets],
                      c.allow_duplicates),
        c, cnt)

Expand(tweets, c) ==
    [i \in 1..Len(tweets) |->
        InlineReferencedTweets(tweets[i], c.inline_referenced_tweets, c.merge_retweets)]

Process(objects, c, ids, cnt) ==
    ProcessExpanded(Expand(GenerateTweets(objects), c), c, ids, cnt)

---------------------------------------------------------------------------
(* CSVConverter                                                            *)

\* _df.to_csv(outfile, columns=output_columns, index=False, header=header):
\* the lines it writes. outfile is an open handle, so both modes write at its
\* end.
SelectColumns(df, row, out_cols) ==
    [j \in 1..Len(out_cols) |-> row[ColumnIndex(df.columns, out_cols[j])]]

ToCsv(df, out_cols, header) ==
    (IF header THEN <<[kind |-> "header", cells |-> out_cols]>> ELSE <<>>)
      \o [i \in 1..Len(df.rows) |->
            [kind |-> "row", cells |-> SelectColumns(df, df.rows[i], out_cols)]]

\* a writer that puts the header before every chunk
WriteHeaderAlways(fb) == TRUE

\* _write_output(_df, first_batch): header = True for the first batch only
WriteHeader(fb) == fb

BlankLine == [kind |-> "blank", obj |-> <<>>]
BadLine   == [kind |-> "bad",   obj |-> <<>>]
EndOfFile == [kind |-> "eof",   obj |-> <<>>]
JsonLine(o) == [kind |-> "json", obj |-> o]

AtEOF == infile # <<>> /\ Last(infile).kind = "eof"

\* a reader that counts a blank line as a parse error
ParseFailuresBlankToo(line) == IF line.kind \in {"bad", "blank"} THEN 1 ELSE 0

\* _read_lines: json.loads raises on a line that is not blank, the except
\* clause adds one to parse_errors
ParseFailures(line) == IF line.kind = "bad" THEN 1 ELSE 0

\* _read_lines: the objects a line yields, one when it parses
YieldedBy(line) == IF line.kind = "json" THEN <<line.obj>> ELSE <<>>

\* a chunker that hands over full chunks only
ChunkReadyWhenFull == batch # <<>> /\ Len(batch) = cfg.batch_size

\* ichunked: a chunk is complete with batch_size objects, or at the end of the
\* input when it holds at least one
ChunkReady == batch # <<>> /\ (Len(batch) = cfg.batch_size \/ AtEOF)

---------------------------------------------------------------------------
(* The input of a run: what one line of the file may hold.                 *)

S(ch) == Str(<<ch>>)
Metrics(n) == Dict(<<<<"like_count", Num(n)>>>>)

Tweet1  == <<<<"id", S("1")>>, <<"text", Str(<<"a", LF, "b", CR>>)>>>>
Tweet1b == <<<<"text", S("b")>>, <<"author_id", S("u1")>>, <<"id", S("1")>>>>
Tweet1x == <<<<"id", S("1")>>, <<"extra", S("x")>>>>
Tweet2x == <<<<"extra", S("x")>>, <<"id", S("2")>>, <<"text", S("c")>>>>
NoTweet == <<<<"extra", S("x")>>>>
Retweet3 ==
    <<<<"id", S("3")>>, <<"text", S("r")>>, <<"author_id", S("u1")>>,
      <<"public_metrics", Metrics(0)>>,
      <<"__twarc", Dict(<<<<"url", S("q")>>>>)>>,
      <<"referenced_tweets",
        List(<<Dict(<<<<"type", S("retweeted")>>, <<"id", S("2")>>,
                      <<"author_id", S("u2")>>, <<"text", S("o")>>,
                      <<"public_metrics", Metrics(5)>>>>),
               Dict(<<<<"type", S("quoted")>>, <<"id", S("1")>>>>)>>)>>>>

Objects == {Tweet1, Tweet1b, Tweet1x, Tweet2x, NoTweet, Retweet3}

Lines == {BlankLine, BadLine} \cup {JsonLine(o) : o \in Objects}

Configs ==
    [allow_duplicates : BOOLEAN, inline_referenced_tweets : BOOLEAN,
     merge_retweets : {TRUE}, json_encode_all : {FALSE},
     json_encode_text : {FALSE}, json_encode_lists : {TRUE},
     batch_size : 1..MaxBatch]

\* no set, mapping, converter or pipeline has been built
NoObjects == [sets |-> <<>>, maps |-> <<>>, convs |-> <<>>, pipes |-> <<>>, log |-> <<>>]

NoCall ==
    [n |-> 0, objects |-> <<>>, ids_before |-> {}, counts_before |-> InitialCounts,
     yielded |-> <<>>, batch |-> <<>>, rejected |-> FALSE,
     df |-> EmptyFrame(<<>>), written_before |-> 0]

---------------------------------------------------------------------------
(* CSVConverter.process, step by step. The code's generators are lazy:     *)
(* a line of a chunk is read when converter.process asks for the next      *)
(* object. The model reads the lines of a chunk first and converts the     *)
(* chunk in one step; the counters and the identifier set are the same     *)
(* whenever a chunk has been converted.                                    *)

Init ==
    /\ cfg \in Configs
    /\ pc = "read"
    /\ infile = <<>>
    /\ batch = <<>>
    /\ counts = InitialCounts
    /\ dataset_ids = {}
    /\ first_batch = TRUE
    /\ pending = EmptyFrame(<<>>)
    /\ outfile = <<>>
    /\ last = NoCall
    /\ hist = <<>>
    /\ arg = <<>>
    /\ res = <<>>
    /\ chunks = <<>>
    /\ objs = NoObjects

\* _read_lines, one turn of its loop: a line is counted, a blank line is
\* passed over, a line that does not parse is counted as a parse error, a
\* parsed object joins the chunk
ReadLine ==
    /\ pc = "read"
    /\ ~AtEOF
    /\ Len(batch) < cfg.batch_size
    /\ Len(infile) < MaxLines
    /\ \E line \in Lines :
         /\ infile' = Append(infile, line)
         /\ counts' = [counts EXCEPT
                         !.lines = @ + 1,
                         !.parse_errors = @ + ParseFailures(line)]
         /\ batch' = batch \o YieldedBy(line)
    /\ UNCHANGED <<cfg, pc, dataset_ids, first_batch, pending, outfile, last, hist,
                   arg, res, chunks, objs>>

\* readline() returns the empty string
ReadEOF ==
    /\ pc = "read"
    /\ ~AtEOF
    /\ Len(batch) < cfg.batch_size
    /\ infile' = Append(infile, EndOfFile)
    /\ UNCHANGED <<cfg, pc, batch, counts, dataset_ids, first_batch, pending,
                   outfile, last, hist, arg, res, chunks, objs>>

\* the tweets of a call that bear an id, each with what became of it
HistOf(r) ==
    LET withId == SelectSeq(r.yielded, LAMBDA t : Has(t, "id"))
    IN  [i \in 1..Len(withId) |-> [tweet |-> withId[i], rejected |-> r.rejected]]

\* the state converter.process leaves, r being what Process computed
Converted(r) ==
    /\ pending' = r.df
    /\ dataset_ids' = r.ids
    /\ counts' = r.counts
    /\ hist' = hist \o HistOf(r)
    /\ last' = [n |-> last.n + 1, objects |-> batch,
                ids_before |-> dataset_ids, counts_before |-> counts,
                yielded |-> r.yielded, batch |-> r.batch,
                rejected |-> r.rejected, df |-> r.df,
                written_before |-> Len(outfile)]
    /\ chunks' = Append(chunks, [objects |-> batch, survivors |-> Len(r.batch),
                                  rows |-> Len(r.df.rows),
                                  rejected |-> r.rejected, written |-> FALSE])

\* self.converter.process(batch), the argument of _write_output
Convert ==
    /\ pc = "read"
    /\ ChunkReady
    /\ Converted(Process(batch, cfg, dataset_ids, counts))
    /\ batch' = <<>>
    /\ pc' = "write"
    /\ UNCHANGED <<cfg, infile, first_batch, outfile, arg, res, objs>>

\* _write_output(_df, first_batch), then first_batch = False
WriteOutput ==
    /\ pc = "write"
    /\ counts' = [counts EXCEPT !.rows = @ + Len(pending.rows)]
    /\ outfile' = outfile \o ToCsv(pending, columns, WriteHeader(first_batch))
    /\ first_batch' = FALSE
    /\ pending' = EmptyFrame(<<>>)
    /\ pc' = "read"
    /\ chunks' = [chunks EXCEPT ![Len(chunks)].written = TRUE]
    /\ UNCHANGED <<cfg, infile, batch, dataset_ids, last, hist, arg, res, objs>>

\* what a call of to_csv that raises may leave in the file: some of the
\* lines of the chunk, not all of them
PartlyWritten(lines) == {SubSeq(lines, 1, k) : k \in 0..(Len(lines) - 1)} \cup {<<>>}

\* _write_output(_df, first_batch) when _df.to_csv raises (the disk is full,
\* the handle is closed): line 446 has counted the rows, the exception
\* leaves _write_output and process, which have no handler, and the table
\* is lost with it
WriteFails ==
    /\ pc = "write"
    /\ counts' = [counts EXCEPT !.rows = @ + Len(pending.rows)]
    /\ \E part \in PartlyWritten(ToCsv(pending, columns, WriteHeader(first_batch))) :
         outfile' = outfile \o part
    /\ pending' = EmptyFrame(<<>>)
    /\ pc' = "failed"
    /\ UNCHANGED <<cfg, infile, batch, dataset_ids, first_batch, last, hist,
                   arg, res, chunks, objs>>

\* the loop over the chunks ends: self.progress.close()
Finish ==
    /\ pc = "read"
    /\ AtEOF
    /\ batch = <<>>
    /\ pc' = "done"
    /\ UNCHANGED <<cfg, infile, batch, counts, dataset_ids, first_batch, pending,
                   outfile, last, hist, arg, res, chunks, objs>>

Next == ReadLine \/ ReadEOF \/ Convert \/ WriteOutput \/ WriteFails \/ Finish

Spec == Init /\ [][Next]_vars

---------------------------------------------------------------------------
(* Properties of a run of CSVConverter.process (specification Spec).       *)

IdColumn == ColumnIndex(columns, "id")
IsRow(l) == l.kind = "row"
IsHeader(l) == l.kind = "header"
Cells(ls) == [i \in 1..Len(ls) |-> ls[i].cells]

\* the data rows written so far, and those of every table handed to the writer
WrittenRows == Cells(SelectSeq(outfile, IsRow))
HandedRows == WrittenRows \o pending.rows

IdOf(tweet) == Get(tweet, "id")
RowsWithId(id) == SelectSeq(WrittenRows, LAMBDA r : r[IdColumn] = id)

\* the first tweet of the run that bears the identifier
FirstWithId(id) ==
    hist[CHOOSE i \in 1..Len(hist) :
            /\ IdOf(hist[i].tweet) = id
            /\ \A j \in 1..(i - 1) : IdOf(hist[j].tweet) # id]

\* the row of a tweet in a table of its own
RowOf(tweet) ==
    ProcessDataframe(Reindex(JsonNormalize(<<tweet>>), columns), cfg).rows[1]

KeyPaths(record) == Range(Keys(FlattenRecord(record)))
HasUnexpected(records) ==
    \E i \in 1..Len(records) : ~(KeyPaths(records[i]) \subseteq Range(columns))

Delta(counter) == counts[counter] - last.counts_before[counter]

\* C1: with duplicates not allowed and the identifier set empty at the start,
\* no identifier is in more than one row handed to the writer, whatever the
\* lines and the batches, rows of referenced tweets included.
C1_NoIdentifierTwice ==
    ~cfg.allow_duplicates =>
        \A i, j \in 1..Len(HandedRows) :
            i < j => HandedRows[i][IdColumn] # HandedRows[j][IdColumn]

\* a finished run that met a repeated identifier, expanded a reference and
\* wrote rows from two chunks
C1_Witness ==
    /\ pc = "done"
    /\ ~cfg.allow_duplicates
    /\ cfg.inline_referenced_tweets
    /\ counts.duplicates > 0
    /\ counts.referenced_tweets > 0
    /\ last.n >= 2
    /\ Len(WrittenRows) >= 2

\* C2, as claimed: with duplicates not allowed, at the end of the run the
\* first tweet bearing an identifier is in the output, for every identifier
\* the input carries, also when a batch was rejected.
C2_FirstOccurrenceIsWritten ==
    (pc = "done" /\ ~cfg.allow_duplicates) =>
        \A i \in 1..Len(hist) :
            RowOf(FirstWithId(IdOf(hist[i].tweet)).tweet) \in Range(WrittenRows)

\* C2, amended: with duplicates not allowed, once a chunk is written the rows
\* that bear an identifier are the row of the first tweet bearing it, and
\* nothing else; they are no row at all when the batch of that first tweet
\* was rejected.
C2_FirstOccurrenceOrNothing ==
    (pc \in {"read", "done"} /\ ~cfg.allow_duplicates) =>
        \A i \in 1..Len(hist) :
            LET first == FirstWithId(IdOf(hist[i].tweet))
            IN  RowsWithId(IdOf(hist[i].tweet)) =
                    IF first.rejected THEN <<>> ELSE <<RowOf(first.tweet)>>

\* a finished run in which an identifier came twice with different content
\* and was written, and another tweet was lost to a rejected batch
C2_Witness ==
    /\ pc = "done"
    /\ ~cfg.allow_duplicates
    /\ \E i, j \in 1..Len(hist) :
          /\ i < j
          /\ IdOf(hist[i].tweet) = IdOf(hist[j].tweet)
          /\ hist[i].tweet # hist[j].tweet
          /\ ~hist[i].rejected
          /\ RowsWithId(IdOf(hist[i].tweet)) # <<>>
    /\ \E k \in 1..Len(hist) : hist[k].rejected

\* C3: when a tweet that survived deduplication has a key path outside the
\* schema, process returns a table without rows: no row of the batch is
\* written and the rows counter stays as it was before the batch.
C3_RejectionIsAllOrNothing ==
    (last.n > 0 /\ HasUnexpected(last.batch)) =>
        /\ last.df.rows = <<>>
        /\ pc = "write" => pending.rows = <<>>
        /\ counts.rows = last.counts_before.rows
        /\ \A i \in (last.written_before + 1)..Len(outfile) : ~IsRow(outfile[i])

\* a rejected batch of two surviving tweets, one of them within the schema,
\* after its (empty) table went through the writer
C3_Witness ==
    /\ pc = "read"
    /\ last.n > 0
    /\ HasUnexpected(last.batch)
    /\ Len(last.batch) >= 2
    /\ \E i \in 1..Len(last.batch) : KeyPaths(last.batch[i]) \subseteq Range(columns)

\* C4, as claimed: a rejected batch of N records adds N to parse_errors.
C4_ParseErrorsByBatchSize ==
    (pc = "write" /\ last.rejected) => Delta("parse_errors") = Len(last.objects)

\* C4, amended: a rejected batch adds to parse_errors the number of rows of
\* its table, that is the tweets that reached the table: the N records of the
\* batch, plus the referenced tweets expanded into rows, less the records
\* without identifier, less (duplicates not allowed) the repeated ones.
C4_ParseErrorsByRowCount ==
    (pc = "write" /\ last.rejected) =>
        /\ Delta("parse_errors") = Len(last.batch)
        /\ Delta("parse_errors") =
              Len(last.objects)
                + (Delta("referenced_tweets") - Delta("unavailable"))
                - Delta("non_tweets")
                - (IF cfg.allow_duplicates THEN 0 ELSE Delta("duplicates"))

\* a rejected batch of two records of which one had no identifier or was a
\* repeat
C4_Witness ==
    /\ pc = "write"
    /\ last.rejected
    /\ Len(last.objects) = 2
    /\ Delta("parse_errors") = 1
    /\ Delta("non_tweets") + Delta("duplicates") > 0

HeaderCount == Len(SelectSeq(outfile, IsHeader))
SomeObjectRead == \E i \in 1..Len(infile) : infile[i].kind = "json"

\* C5, as claimed: every finished run has written the header exactly once.
C5_HeaderExactlyOnce == pc = "done" => HeaderCount = 1

\* C5, amended: the header is written at most once and before every data
\* row; a finished run has written it exactly once when the input held at
\* least one parsed object, and not at all otherwise.
C5_HeaderOnceWithFirstChunk ==
    /\ \A i \in 1..Len(outfile) : IsHeader(outfile[i]) <=> i = 1
    /\ pc = "done" => HeaderCount = (IF SomeObjectRead THEN 1 ELSE 0)

\* a finished run of several chunks whose first batch was rejected and that
\* wrote a data row later
C5_Witness ==
    /\ pc = "done"
    /\ last.n >= 2
    /\ hist # <<>>
    /\ hist[1].rejected
    /\ WrittenRows # <<>>
    /\ HeaderCount = 1

\* C6: the table of an accepted batch has the columns of the schema, in the
\* order of the schema, and one row for each tweet of the batch; the cell of
\* a column is the encoded value the tweet has under that key path, and the
\* missing-value marker when the tweet has no such key path.
C6_RowsFollowSchema ==
    (last.n > 0 /\ ~last.rejected) =>
        /\ last.df.columns = columns
        /\ Len(last.df.rows) = Len(last.batch)
        /\ \A i \in 1..Len(last.df.rows) :
              /\ Len(last.df.rows[i]) = Len(columns)
              /\ \A j \in 1..Len(columns) :
                    last.df.rows[i][j] =
                        IF columns[j] \in KeyPaths(last.batch[i])
                        THEN EncodeCell(Get(FlattenRecord(last.batch[i]), columns[j]), cfg)
                        ELSE NaN

\* an accepted batch of two tweets, one with its keys in another order than
\* the schema, one without a column the other has
C6_Witness ==
    /\ last.n > 0
    /\ ~last.rejected
    /\ Len(last.batch) = 2
    /\ \E i \in 1..2 : Keys(last.batch[i])[1] = "text"
    /\ \E i \in 1..2 : "author_id" \notin KeyPaths(last.batch[i])
    /\ JsonNormalize(last.batch).columns # columns

\* the records of a sequence that bear an id, and the number of the others
WithId(records) == SelectSeq(records, LAMBDA t : Has(t, "id"))
Idless(records) == Len(records) - Len(WithId(records))

\* st is what _process_tweets leaves when the records without id are taken
\* out of what it was given in the last call
AsIfAbsent(st) ==
    /\ st.out = last.batch
    /\ st.ids = dataset_ids
    /\ st.tweets = counts.tweets
    /\ st.duplicates = counts.duplicates
    /\ st.non_tweets + Idless(last.yielded) = counts.non_tweets

\* C13: a record without id is never yielded by _process_tweets, adds exactly
\* one to non_tweets, and leaves the identifier set, tweets and duplicates as
\* they were: the other records of the batch come out as if it were absent.
C13_IdlessRecordsOnlyCounted ==
    last.n > 0 =>
        /\ WithId(last.batch) = last.batch
        /\ Delta("non_tweets") = Idless(last.yielded)
        /\ AsIfAbsent(ProcessTweets(WithId(last.yielded),
                                    [out |-> <<>>, ids |-> last.ids_before,
                                     tweets |-> last.counts_before.tweets,
                                     duplicates |-> last.counts_before.duplicates,
                                     non_tweets |-> last.counts_before.non_tweets],
                                    cfg.allow_duplicates))

\* a batch of a record without id followed by a tweet, which is yielded
C13_Witness ==
    /\ last.n > 0
    /\ Len(last.yielded) = 2
    /\ ~Has(last.yielded[1], "id")
    /\ Has(last.yielded[2], "id")
    /\ last.batch = <<last.yielded[2]>>
    /\ Delta("non_tweets") = 1
    /\ Delta("tweets") = 1

\* the records of the last call that bear an id which was in the identifier
\* set when they were checked: it was there before the call, or an earlier
\* record of the call bears it
SeenWhenChecked(i) ==
    /\ Has(last.yielded[i], "id")
    /\ \/ IdOf(last.yielded[i]) \in last.ids_before
       \/ \E j \in 1..(i - 1) :
             /\ Has(last.yielded[j], "id")
             /\ IdOf(last.yielded[j]) = IdOf(last.yielded[i])

\* C16: with and without duplicate-allowance, duplicates grows by one for
\* each record whose id is already in the identifier set when the record is
\* checked, and by nothing for any other record; with duplicate-allowance
\* every record that bears an id is yielded.
C16_DuplicatesCountedInBothModes ==
    last.n > 0 =>
        /\ Delta("duplicates")
             = Cardinality({i \in 1..Len(last.yielded) : SeenWhenChecked(i)})
        /\ cfg.allow_duplicates => last.batch = WithId(last.yielded)

\* duplicate-allowance on: a batch of two records of one id, both yielded,
\* one of them counted as a duplicate
C16_Witness ==
    /\ last.n > 0
    /\ cfg.allow_duplicates
    /\ Len(last.yielded) = 2
    /\ Len(last.batch) = 2
    /\ IdOf(last.batch[1]) = IdOf(last.batch[2])
    /\ last.ids_before = {}
    /\ Delta("duplicates") = 1

\* the data rows of the chunks whose write has succeeded
RowsOfWrittenChunks ==
    Sum([i \in 1..Len(chunks) |-> IF chunks[i].written THEN chunks[i].rows ELSE 0])

\* C17: at every point of a run, the state a failed write leaves included,
\* rows is the number of data rows of the chunks that were written
\* successfully: the rows of a chunk are counted only once the writer has
\* taken the chunk.
C17_RowsAreWrittenRows == counts.rows = RowsOfWrittenChunks

\* the objects the lines of the input parse to, in the order of the lines
ParsedObjects == Flat([i \in 1..Len(infile) |-> YieldedBy(infile[i])])
LinesOfInput == Len(SelectSeq(infile, LAMBDA l : l.kind # "eof"))

\* the objects read so far have gone to the converter in chunks that are
\* not empty, hold at most batch_size objects and follow the order of the
\* input, the last of them to the writer as well unless it is being written
HandedInOrder ==
    /\ counts.lines = LinesOfInput
    /\ Flat([i \in 1..Len(chunks) |-> chunks[i].objects]) \o batch = ParsedObjects
    /\ \A i \in 1..Len(chunks) :
          /\ chunks[i].objects # <<>>
          /\ Len(chunks[i].objects) <= cfg.batch_size
          /\ chunks[i].written \/ (i = Len(chunks) /\ pc = "write")
    /\ Len(WrittenRows)
         = Sum([i \in 1..Len(chunks) |-> IF chunks[i].written THEN chunks[i].rows ELSE 0])

\* the run can take a step: read, convert a chunk, write a table or finish
CanStep ==
    \/ pc = "read" /\ ~AtEOF /\ Len(batch) < cfg.batch_size
    \/ pc = "read" /\ ChunkReady
    \/ pc = "read" /\ AtEOF /\ batch = <<>>
    \/ pc = "write"

\* what is left to do: lines to read (the end of the file is the last of
\* them), a chunk to convert, a table to write, the loop to leave
Measure ==
    3 * (MaxLines + 1 - Len(infile))
    + (IF batch # <<>> THEN 2 ELSE 0)
    + (IF pc = "write" THEN 1 ELSE 0)
    + (IF pc # "done" THEN 1 ELSE 0)

\* a step in which no write fails brings the run nearer to its end, keeps the
\* chunks in order, and leaves it finished with everything handed over or
\* able to take another step
StepTowardsDone ==
    pc' # "failed" =>
        /\ Measure' < Measure
        /\ Measure' >= 0
        /\ HandedInOrder'
        /\ (pc' = "done" /\ AtEOF' /\ batch' = <<>>) \/ (pc' # "done" /\ CanStep')

\* C19: a run over a finite input, whatever blank lines, unparseable lines,
\* records without id and rejected batches it holds, reads every line, hands
\* every chunk to the converter and to the writer in the order of the input,
\* and ends: every step but a failing write lowers a measure that cannot go
\* below zero and leaves the run finished or able to go on, so no parse
\* error and no rejection stops it or keeps a later batch from being written.
C19_RunEndsWithAllHanded == [][StepTowardsDone]_vars

\* a finished run that met an unparseable line and a rejected batch, and
\* wrote the rows of a batch that came after them
C19_Witness ==
    /\ pc = "done"
    /\ HandedInOrder
    /\ infile[1].kind = "bad"
    /\ Len(chunks) = 2
    /\ chunks[1].rejected
    /\ ~chunks[2].rejected
    /\ chunks[2].rows > 0
    /\ Len(WrittenRows) = chunks[2].rows

\* the rows of the tables that were rejected for unexpected columns, and the
\* lines that did not parse
RejectedRows ==
    Sum([i \in 1..Len(chunks) |-> IF chunks[i].rejected THEN chunks[i].survivors ELSE 0])
UnparseableLines == Len(SelectSeq(infile, LAMBDA l : l.kind = "bad"))

\* C20: after every batch of a run that began with an empty identifier set
\* and counters at zero, the identifier set has tweets - duplicates members,
\* parse_errors is the number of unparseable lines plus the rows of the
\* rejected batches, and every record with an id is accounted for once:
\* tweets = rows + duplicates + rows of rejected batches when duplicates are
\* filtered out, tweets = rows + rows of rejected batches when they are
\* allowed.
C20_CountersAddUp ==
    pc # "write" =>
        /\ Cardinality(dataset_ids) = counts.tweets - counts.duplicates
        /\ counts.parse_errors = UnparseableLines + RejectedRows
        /\ counts.tweets
             = counts.rows + (counts.parse_errors - UnparseableLines)
               + (IF cfg.allow_duplicates THEN 0 ELSE counts.duplicates)

\* a finished run with duplicates filtered out that wrote a row, dropped a
\* duplicate and lost a row to a rejected batch
C20_Witness ==
    /\ pc = "done"
    /\ ~cfg.allow_duplicates
    /\ counts.rows > 0
    /\ counts.duplicates > 0
    /\ RejectedRows > 0
    /\ counts.tweets = 3

\* what reading one more line of the input does to the counters, to the
\* chunk being gathered and to the reader
LineIsSkippedOrYielded ==
    (infile' # infile /\ Last(infile').kind # "eof") =>
        LET line == Last(infile')
        IN  /\ counts'.lines = counts.lines + 1
            /\ line.kind = "bad" =>
                  /\ counts'.parse_errors = counts.parse_errors + 1
                  /\ batch' = batch
            /\ line.kind = "blank" =>
                  /\ counts'.parse_errors = counts.parse_errors
                  /\ batch' = batch
            /\ line.kind = "json" =>
                  /\ counts'.parse_errors = counts.parse_errors
                  /\ batch' = Append(batch, line.obj)
            /\ pc' = "read"
            /\ ~AtEOF'
            /\ [counts' EXCEPT !.lines = 0, !.parse_errors = 0]
                 = [counts EXCEPT !.lines = 0, !.parse_errors = 0]

\* C11: every line read adds one to lines; a line that is not blank and does
\* not parse adds exactly one to parse_errors and yields no object; a blank
\* line yields no object and leaves parse_errors alone; in each case the
\* reader stays in its loop, so the lines after it are still read.
C11_BadAndBlankLinesAreSkipped == [][LineIsSkippedOrYielded]_vars

\* a finished run that read an unparseable line, then a blank line, then a
\* record that was written
C11_Witness ==
    /\ pc = "done"
    /\ Len(infile) = 4
    /\ infile[1].kind = "bad"
    /\ infile[2].kind = "blank"
    /\ infile[3].kind = "json"
    /\ counts.lines = 3
    /\ counts.parse_errors = 1
    /\ counts.rows = 1

---------------------------------------------------------------------------
(* Unit runs of _format_tweet and _inline_referenced_tweets on one tweet   *)
(* (specification SpecFormat).                                             *)

RefTypes == {"retweeted", "quoted", "replied_to"}

\* the entries of a referenced_tweets list: a full tweet, a tweet with empty
\* metrics, the bare reference the API leaves for an unavailable tweet, and a
\* tweet of which only the author is known
RefEntries ==
    UNION {{ Dict(<<<<"type", S(t)>>, <<"id", S("1")>>, <<"author_id", S("u1")>>,
                    <<"text", S("o")>>, <<"public_metrics", Metrics(5)>>>>),
             Dict(<<<<"type", S(t)>>, <<"id", S("2")>>, <<"author_id", S("u2")>>,
                    <<"text", S("p")>>, <<"public_metrics", Dict(<<>>)>>>>),
             Dict(<<<<"type", S(t)>>, <<"id", S("1")>>>>),
             Dict(<<<<"type", S(t)>>, <<"id", S("2")>>, <<"author_id", S("u3")>>>>) }
           : t \in RefTypes}

RefLists == UNION {[1..n -> RefEntries] : n \in 0..MaxRefs}

OwnTweets ==
    { <<<<"id", S("9")>>, <<"author_id", S("me")>>, <<"text", S("t")>>>>,
      <<<<"id", S("9")>>, <<"author_id", S("me")>>, <<"text", S("t")>>,
        <<"public_metrics", Dict(<<>>)>>,
        <<"entities", Dict(<<<<"urls", List(<<S("x")>>)>>>>)>>,
        <<"__twarc", Dict(<<<<"url", S("q")>>>>)>>>>,
      <<<<"id", S("9")>>, <<"author_id", S("me")>>, <<"text", S("t")>>,
        <<"public_metrics", Metrics(1)>>, <<"entities", Dict(<<>>)>>,
        <<"__twarc", Dict(<<<<"url", S("q")>>>>)>>>>,
      <<<<"id", S("9")>>, <<"author_id", S("me")>>, <<"text", S("t")>>,
        <<"public_metrics", Metrics(1)>>,
        <<"context_annotations", List(<<S("c")>>)>>>> }

UnitTweets ==
    OwnTweets \cup
    {Append(t, <<"referenced_tweets", List(l)>>) : t \in OwnTweets, l \in RefLists}

FormatConfigs ==
    [allow_duplicates : {FALSE}, inline_referenced_tweets : BOOLEAN,
     merge_retweets : BOOLEAN, json_encode_all : {FALSE},
     json_encode_text : {FALSE}, json_encode_lists : {TRUE}, batch_size : {1}]

\* a converter as __init__ leaves it, and no pipeline around it
UnitInit ==
    /\ pc = "unit"
    /\ infile = <<>>
    /\ batch = <<>>
    /\ counts = InitialCounts
    /\ dataset_ids = {}
    /\ first_batch = TRUE
    /\ pending = EmptyFrame(<<>>)
    /\ outfile = <<>>
    /\ last = NoCall
    /\ hist = <<>>
    /\ res = <<>>
    /\ chunks = <<>>
    /\ objs = NoObjects

InitFormat ==
    /\ cfg \in FormatConfigs
    /\ arg \in UnitTweets
    /\ UnitInit

\* self._format_tweet(arg)
Format ==
    /\ pc = "unit"
    /\ res' = FormatTweet(arg, cfg.merge_retweets)
    /\ pc' = "formatted"
    /\ UNCHANGED <<cfg, infile, batch, counts, dataset_ids, first_batch, pending,
                   outfile, last, hist, arg, chunks, objs>>

Inlined(r) ==
    /\ res' = r.rows
    /\ counts' = [counts EXCEPT !.referenced_tweets = @ + r.referenced,
                                !.unavailable = @ + r.unavailable]

\* list(self._inline_referenced_tweets(arg))
Inline ==
    /\ pc = "unit"
    /\ Inlined(InlineReferencedTweets(arg, cfg.inline_referenced_tweets,
                                      cfg.merge_retweets))
    /\ pc' = "inlined"
    /\ UNCHANGED <<cfg, infile, batch, dataset_ids, first_batch, pending, outfile,
                   last, hist, arg, chunks, objs>>

NextFormat == Format \/ Inline

SpecFormat == InitFormat /\ [][NextFormat]_vars

\* the referenced_tweets list of the tweet under study
ArgRefs == IF Has(arg, "referenced_tweets") THEN Get(arg, "referenced_tweets").v ELSE <<>>

IsKind(e, kind) == Get(e.v, "type") = S(kind)
HasKind(kind) == \E i \in 1..Len(ArgRefs) : IsKind(ArgRefs[i], kind)

\* the entry of a kind that no entry of that kind follows
LastEntry(kind) ==
    ArgRefs[CHOOSE i \in 1..Len(ArgRefs) :
               /\ IsKind(ArgRefs[i], kind)
               /\ \A j \in (i + 1)..Len(ArgRefs) : ~IsKind(ArgRefs[j], kind)]

\* what a field holds: its leaves under their dotted paths; a field that is
\* absent, None or an empty object holds nothing
Content(d, k) ==
    IF Has(d, k)
    THEN SelectSeq(FlattenRecord(<<<<k, Get(d, k)>>>>), LAMBDA p : ~IsNA(p[2]))
    ELSE <<>>

\* C7: a tweet with a retweeted entry, normalised with merge_retweets on, has
\* the text and the public_metrics of the last retweeted entry and its own id
\* and author_id; normalised with merge_retweets off, its text, entities,
\* attachments, context_annotations and public_metrics are its own. (An empty
\* attachments, entities or public_metrics is removed by lines 294-299: fields
\* are compared by what they hold.)
C7_RetweetMerge ==
    (pc = "formatted" /\ HasKind("retweeted")) =>
        /\ Get(res, "id") = Get(arg, "id")
        /\ Get(res, "author_id") = Get(arg, "author_id")
        /\ IF cfg.merge_retweets
           THEN /\ Content(res, "text") = Content(LastEntry("retweeted").v, "text")
                /\ Content(res, "public_metrics") =
                       Content(LastEntry("retweeted").v, "public_metrics")
           ELSE \A i \in 1..Len(MergedFields) :
                    Content(res, MergedFields[i]) = Content(arg, MergedFields[i])

\* a merged tweet with two retweeted entries of different text and metrics
C7_Witness ==
    /\ pc = "formatted"
    /\ cfg.merge_retweets
    /\ Len(OfType(ArgRefs, "retweeted")) = 2
    /\ Content(ArgRefs[1].v, "text") # Content(ArgRefs[2].v, "text")
    /\ Get(res, "text") = S("o")
    /\ Get(res, "public_metrics") = Metrics(5)
    /\ Get(res, "author_id") = S("me")

\* C8: with several quoted (retweeted) entries, quoted_user_id
\* (retweeted_user_id) is the author_id of the last quoted (retweeted) entry
\* of the list, when that entry has an author_id.
C8_LastEntryWins ==
    pc = "formatted" =>
        /\ (HasKind("quoted") /\ Has(LastEntry("quoted").v, "author_id")) =>
              /\ Has(res, "quoted_user_id")
              /\ Get(res, "quoted_user_id") = Get(LastEntry("quoted").v, "author_id")
        /\ (HasKind("retweeted") /\ Has(LastEntry("retweeted").v, "author_id")) =>
              /\ Has(res, "retweeted_user_id")
              /\ Get(res, "retweeted_user_id") =
                     Get(LastEntry("retweeted").v, "author_id")

\* two quoted entries with different ids and authors
C8_Witness ==
    /\ pc = "formatted"
    /\ Len(ArgRefs) = 2
    /\ Len(OfType(ArgRefs, "quoted")) = 2
    /\ Get(ArgRefs[1].v, "id") # Get(ArgRefs[2].v, "id")
    /\ Has(ArgRefs[1].v, "author_id")
    /\ Has(ArgRefs[2].v, "author_id")
    /\ Get(ArgRefs[1].v, "author_id") # Get(ArgRefs[2].v, "author_id")
    /\ Get(res, "quoted_user_id") = Get(ArgRefs[2].v, "author_id")

\* C14: the referenced_tweets mapping that _format_tweet builds has one key
\* for each kind of reference in the list, with the id of the last entry of
\* that kind (the entry quoted_user_id and retweeted_user_id are taken
\* from); a tweet without a reference list gets the empty mapping.
C14_MappingTakesLastEntry ==
    pc = "formatted" =>
        IF Has(arg, "referenced_tweets")
        THEN /\ Range(Keys(Get(res, "referenced_tweets").v))
                  = {k \in RefTypes : HasKind(k)}
             /\ \A k \in RefTypes :
                   HasKind(k) =>
                       Get(Get(res, "referenced_tweets").v, k)
                         = Dict(<<<<"id", Get(LastEntry(k).v, "id")>>>>)
        ELSE Get(res, "referenced_tweets") = Dict(<<>>)

\* an entry that has more than its type and its id
HasContent(e) == Len(e.v) > 2

\* C9: with expansion on, the expander yields the rows of the referenced
\* tweets in the order of the list, then the row of the tweet itself, which
\* it always yields last, and referenced_tweets grows by the length of the
\* list; with expansion off it yields the row of the tweet alone and the
\* counter does not change.
C9_ReferencedRowsBeforeParent ==
    pc = "inlined" =>
        /\ Len(res) >= 1
        /\ IdOf(Last(res)) = IdOf(arg)
        /\ IF cfg.inline_referenced_tweets
           THEN /\ counts.referenced_tweets = Len(ArgRefs)
                /\ [i \in 1..(Len(res) - 1) |-> IdOf(res[i])] =
                       LET shown == SelectSeq(ArgRefs, HasContent)
                       IN  [i \in 1..Len(shown) |-> Get(shown[i].v, "id")]
           ELSE /\ counts.referenced_tweets = 0
                /\ Len(res) = 1

\* a tweet with two available references of different ids, expanded
C9_Witness ==
    /\ pc = "inlined"
    /\ cfg.inline_referenced_tweets
    /\ Len(ArgRefs) = 2
    /\ Len(res) = 3
    /\ IdOf(res[1]) # IdOf(res[2])
    /\ counts.referenced_tweets = 2

\* the number of fields of an entry once __twarc has been attached to it
FieldsAttached(e) == Cardinality(Range(Keys(e.v)) \cup {"__twarc"})

\* C15: with expansion on, an entry that has more than three fields once the
\* retrieval metadata of the parent is attached is formatted and yielded with
\* that metadata; every other entry is dropped and adds one to unavailable.
\* referenced_tweets is therefore the number of rows yielded for entries
\* plus unavailable.
C15_YieldedOrUnavailable ==
    (pc = "inlined" /\ cfg.inline_referenced_tweets) =>
        /\ Len(res) - 1 = Len(SelectSeq(ArgRefs, LAMBDA e : FieldsAttached(e) > 3))
        /\ counts.unavailable
             = Len(SelectSeq(ArgRefs, LAMBDA e : FieldsAttached(e) <= 3))
        /\ counts.referenced_tweets = (Len(res) - 1) + counts.unavailable
        /\ \A i \in 1..(Len(res) - 1) :
              /\ Has(res[i], "__twarc")
              /\ Get(res[i], "__twarc") = GetOr(arg, "__twarc", None)

\* a tweet with retrieval metadata and two references, one of them bare
C15_Witness ==
    /\ pc = "inlined"
    /\ cfg.inline_referenced_tweets
    /\ Has(arg, "__twarc")
    /\ Len(ArgRefs) = 2
    /\ Len(res) = 2
    /\ counts.unavailable = 1
    /\ counts.referenced_tweets = 2
    /\ Get(res[1], "__twarc") = Get(arg, "__twarc")

---------------------------------------------------------------------------
(* Unit runs of _process_dataframe on a table (specification SpecEncode).  *)

Chars == {"a", "n", BS, CR, LF}
Texts == UNION {[1..n -> Chars] : n \in 0..MaxText}

\* tables of one row with a string, a list, a number and a missing value
Frames ==
    {[columns |-> <<"text", "entities.urls", "public_metrics.like_count", "author_id">>,
      rows    |-> <<<<Str(t), List(<<Str(<<"u", LF>>)>>), Num(5), NaN>>>>]
        : t \in Texts}

EncodeConfigs ==
    [allow_duplicates : {FALSE}, inline_referenced_tweets : {FALSE},
     merge_retweets : {TRUE}, json_encode_all : BOOLEAN,
     json_encode_text : BOOLEAN, json_encode_lists : BOOLEAN, batch_size : {1}]

InitEncode ==
    /\ cfg \in EncodeConfigs
    /\ arg \in Frames
    /\ UnitInit

\* self._process_dataframe(arg)
Encode ==
    /\ pc = "unit"
    /\ res' = ProcessDataframe(arg, cfg)
    /\ pc' = "encoded"
    /\ UNCHANGED <<cfg, infile, batch, counts, dataset_ids, first_batch, pending,
                   outfile, last, hist, arg, chunks, objs>>

NextEncode == Encode

SpecEncode == InitEncode /\ [][NextEncode]_vars

\* the string with every carriage return left out and every line feed
\* written as a backslash and an n
Escaped(s) ==
    Flat([i \in 1..Len(s) |->
            IF s[i] = CR THEN <<>> ELSE IF s[i] = LF THEN <<BS, "n">> ELSE <<s[i]>>])

\* C10: with json_encode_all and json_encode_text off, no string cell of the
\* encoded table holds a carriage return or a line feed, and a cell that was
\* a string is that string with the carriage returns removed, each line feed
\* replaced by backslash n, and the rest unchanged.
C10_NewlineSafety ==
    (pc = "encoded" /\ ~cfg.json_encode_all /\ ~cfg.json_encode_text) =>
        \A i \in 1..Len(res.rows) : \A j \in 1..Len(res.rows[i]) :
            /\ res.rows[i][j].ty = "str" =>
                  CR \notin Range(res.rows[i][j].v) /\ LF \notin Range(res.rows[i][j].v)
            /\ arg.rows[i][j].ty = "str" =>
                  res.rows[i][j] = Str(Escaped(arg.rows[i][j].v))

\* line1<LF>line2<CR>, in short: a<LF>n<CR> becomes a\nn
C10_Witness ==
    /\ pc = "encoded"
    /\ ~cfg.json_encode_all
    /\ ~cfg.json_encode_text
    /\ arg.rows[1][1] = Str(<<"a", LF, CR>>)
    /\ res.rows[1][1] = Str(<<"a", BS, "n">>)

---------------------------------------------------------------------------
(* A program that builds several converters and pipelines (specification   *)
(* SpecObjects). Python passes objects by reference: objs.sets and         *)
(* objs.maps are the set and mapping objects that exist, a converter holds *)
(* the index of its dataset_ids and of its counts, a pipeline the index of *)
(* its converter. Index 0 stands for None or for an argument left out.     *)

\* a mapping object: {} or a mapping that holds the counters
EmptyMapping == [full |-> FALSE, c |-> InitialCounts]
Mapping(c) == [full |-> TRUE, c |-> c]

\* the set and the mapping the caller has at hand
CallerSet == 2
CallerMap == 2

\* the converter made when the class CSVConverter is defined: the default
\* value converter=DataFrameConverter() is evaluated once
DefaultConverter == 1

\* "x if x else ...": the truth value of a set and of a mapping
SetIsTrue(o, ref) == ref # 0 /\ o.sets[ref] # {}
MapIsTrue(o, ref) == ref # 0 /\ o.maps[ref].full

\* DataFrameConverter(dataset_ids=ids_arg, counts=counts_arg)
NewConverter(o, ids_arg, counts_arg) ==
    LET sets1 == IF SetIsTrue(o, ids_arg) THEN o.sets ELSE Append(o.sets, {})
        maps1 == IF MapIsTrue(o, counts_arg) THEN o.maps
                 ELSE Append(o.maps, Mapping(InitialCounts))
    IN  [o EXCEPT
           !.sets = sets1,
           !.maps = maps1,
           !.convs = Append(@,
               [dataset_ids |-> IF SetIsTrue(o, ids_arg) THEN ids_arg ELSE Len(sets1),
                counts |-> IF MapIsTrue(o, counts_arg) THEN counts_arg ELSE Len(maps1),
                given_ids |-> ids_arg, given_counts |-> counts_arg])]

\* CSVConverter(infile, outfile, converter=conv_arg), or without converter
NewPipeline(o, conv_arg) ==
    [o EXCEPT !.pipes = Append(@,
        [converter |-> IF conv_arg = 0 THEN DefaultConverter ELSE conv_arg,
         given |-> conv_arg])]

\* converter c has processed the one record obj, r being what Process
\* computed; through pipeline p the table is written and its rows counted
Called(o, c, p, obj, r) ==
    LET conv == o.convs[c]
        after == IF p = 0 THEN r.counts
                 ELSE [r.counts EXCEPT !.rows = @ + Len(r.df.rows)]
    IN  [o EXCEPT
           !.sets[conv.dataset_ids] = r.ids,
           !.maps[conv.counts] = Mapping(after),
           !.log = Append(@,
               [conv |-> c, pipe |-> p, id |-> IdOf(obj),
                ids_before |-> o.sets[conv.dataset_ids],
                counts_before |-> o.maps[conv.counts].c,
                yielded |-> Len(r.batch),
                duplicates |-> r.counts.duplicates
                               - o.maps[conv.counts].c.duplicates])]

CallObjects == {Tweet1, Tweet1b, Retweet3}

CallerSets == {{}, {S("1")}}
CallerMaps == {EmptyMapping, Mapping(InitialCounts),
               Mapping([InitialCounts EXCEPT !.tweets = 1, !.rows = 1])}

ObjectConfigs == {c \in Configs : ~c.inline_referenced_tweets /\ c.batch_size = 1}

InitObjects ==
    /\ cfg \in ObjectConfigs
    /\ pc = "objects"
    /\ infile = <<>>
    /\ batch = <<>>
    /\ counts = InitialCounts
    /\ dataset_ids = {}
    /\ first_batch = TRUE
    /\ pending = EmptyFrame(<<>>)
    /\ outfile = <<>>
    /\ last = NoCall
    /\ hist = <<>>
    /\ arg = <<>>
    /\ res = <<>>
    /\ chunks = <<>>
    /\ \E s \in CallerSets, m \in CallerMaps :
         objs = [sets |-> <<{}, s>>,
                 maps |-> <<Mapping(InitialCounts), m>>,
                 convs |-> <<[dataset_ids |-> 1, counts |-> 1,
                              given_ids |-> 0, given_counts |-> 0]>>,
                 pipes |-> <<>>,
                 log |-> <<>>]

UnchangedButObjects ==
    UNCHANGED <<cfg, pc, infile, batch, counts, dataset_ids, first_batch, pending,
                outfile, last, hist, arg, res, chunks>>

\* the program builds a converter, with or without the set and the mapping
MakeConverter ==
    /\ Len(objs.convs) < 1 + MaxConverters
    /\ \E ids_arg \in {0, CallerSet}, counts_arg \in {0, CallerMap} :
         objs' = NewConverter(objs, ids_arg, counts_arg)
    /\ UnchangedButObjects

\* the program builds a pipeline, with a converter of its own or without
MakePipeline ==
    /\ Len(objs.pipes) < MaxPipes
    /\ \E conv_arg \in {0} \cup (2..Len(objs.convs)) :
         objs' = NewPipeline(objs, conv_arg)
    /\ UnchangedButObjects

\* converter.process(batch) on a converter the program built
ConverterProcess ==
    /\ Len(objs.log) < MaxCalls
    /\ \E c \in 2..Len(objs.convs), obj \in CallObjects :
         objs' = Called(objs, c, 0, obj,
                        Process(<<obj>>, cfg, objs.sets[objs.convs[c].dataset_ids],
                                objs.maps[objs.convs[c].counts].c))
    /\ UnchangedButObjects

\* CSVConverter.process() of a pipeline over an input of one record
PipelineProcess ==
    /\ Len(objs.log) < MaxCalls
    /\ \E p \in 1..Len(objs.pipes), obj \in CallObjects :
         LET c == objs.pipes[p].converter
         IN  objs' = Called(objs, c, p, obj,
                            Process(<<obj>>, cfg, objs.sets[objs.convs[c].dataset_ids],
                                    objs.maps[objs.convs[c].counts].c))
    /\ UnchangedButObjects

NextObjects == MakeConverter \/ MakePipeline \/ ConverterProcess \/ PipelineProcess

SpecObjects == InitObjects /\ [][NextObjects]_vars

\* C12: a converter built with a set and a mapping of the caller keeps
\* exactly these two objects, an empty set and an empty mapping included, so
\* that an identifier that went through one converter is counted as a
\* duplicate by every other converter built with the same set.
C12_SuppliedObjectsAreUsed ==
    /\ \A c \in 1..Len(objs.convs) :
          /\ objs.convs[c].given_ids # 0 =>
                objs.convs[c].dataset_ids = objs.convs[c].given_ids
          /\ objs.convs[c].given_counts # 0 =>
                objs.convs[c].counts = objs.convs[c].given_counts
    /\ \A i, j \in 1..Len(objs.log) :
          ( /\ i < j
            /\ objs.log[i].conv # objs.log[j].conv
            /\ objs.convs[objs.log[i].conv].given_ids = CallerSet
            /\ objs.convs[objs.log[j].conv].given_ids = CallerSet
            /\ objs.log[i].id = objs.log[j].id )
          => objs.log[j].duplicates = 1

\* the set and the mapping that were given to the converter a pipeline was
\* built with, 0 when the pipeline was built without a converter
GivenSet(p) ==
    IF objs.pipes[p].given = 0 THEN 0 ELSE objs.convs[objs.pipes[p].given].given_ids
GivenMap(p) ==
    IF objs.pipes[p].given = 0 THEN 0 ELSE objs.convs[objs.pipes[p].given].given_counts

\* two pipelines that were not given the same converter, set or mapping
Independent(p, q) ==
    /\ p # q
    /\ objs.pipes[p].given = 0 \/ objs.pipes[p].given # objs.pipes[q].given
    /\ GivenSet(p) = 0 \/ GivenSet(p) # GivenSet(q)
    /\ GivenMap(p) = 0 \/ GivenMap(p) # GivenMap(q)

SetOf(p) == objs.convs[objs.pipes[p].converter].dataset_ids
MapOf(p) == objs.convs[objs.pipes[p].converter].counts

\* call j is a run of a pipeline that was given no set and no mapping, and
\* every call before it was a run of a pipeline independent of it
FirstOfIndependentRun(j) ==
    /\ objs.log[j].pipe # 0
    /\ GivenSet(objs.log[j].pipe) = 0
    /\ GivenMap(objs.log[j].pipe) = 0
    /\ \A i \in 1..(j - 1) :
          /\ objs.log[i].pipe # 0
          /\ Independent(objs.log[i].pipe, objs.log[j].pipe)

\* C18: two pipelines built independently of each other, neither of them
\* given a converter, a set or a mapping that the other has, keep their
\* identifiers and their counters in different objects: the run of the
\* second starts with an empty identifier set and with counters at zero,
\* whatever the first has processed.
C18_IndependentPipelinesAreDisjoint ==
    /\ \A p, q \in 1..Len(objs.pipes) :
          Independent(p, q) => (SetOf(p) # SetOf(q) /\ MapOf(p) # MapOf(q))
    /\ \A j \in 1..Len(objs.log) :
          FirstOfIndependentRun(j) =>
              /\ objs.log[j].ids_before = {}
              /\ objs.log[j].counts_before = InitialCounts

---------------------------------------------------------------------------
(* The columns and the two column counters that DataFrameConverter.__init__ *)
(* sets up (specification SpecColumns). A string is the sequence of its     *)
(* characters, a column name as well.                                       *)

\* s.split(sep) for a separator of one character
RECURSIVE SplitFrom(_, _, _)
SplitFrom(s, sep, piece) ==
    IF s = <<>> THEN <<piece>>
    ELSE IF Head(s) = sep THEN <<piece>> \o SplitFrom(Tail(s), sep, <<>>)
    ELSE SplitFrom(Tail(s), sep, Append(piece, Head(s)))

Split(s, sep) == SplitFrom(s, sep, <<>>)

\* for x in s, s being a string: its characters, each a string of length one
Characters(s) == [i \in 1..Len(s) |-> <<s[i]>>]

\* the text blocks of the module, each cut down to its first lines
DEFAULT_TWEET_COLUMNS == Split(<<"i", "d", LF, "t", "e", "x", "t", LF>>, LF)
DEFAULT_USER_COLUMNS == Split(<<"i", "d", LF, "n", "a", "m", "e", LF>>, LF)
DEFAULT_COMPLIANCE_COLUMNS == Split(<<"i", "d", LF, "a", "c", "t", "i", "o", "n", LF>>, LF)
\* no split here: a string
DEFAULT_COUNTS_COLUMNS == <<"s", "t", "a", "r", "t", LF, "e", "n", "d", LF>>

\* self.columns.extend(x for x in xs if x not in self.columns): the test sees
\* what the same call has appended already
RECURSIVE ExtendNew(_, _)
ExtendNew(cols, xs) ==
    IF xs = <<>> THEN cols
    ELSE ExtendNew(IF Head(xs) \in Range(cols) THEN cols ELSE Append(cols, Head(xs)),
                   Tail(xs))

\* "kind" in input_data_type
ExtendIf(cols, kinds, kind, xs) == IF kind \in kinds THEN ExtendNew(cols, xs) ELSE cols

\* lines 173-193: self.columns
SchemaColumns(kinds, extra) ==
    LET c1 == ExtendIf(<<>>, kinds, "tweets", DEFAULT_TWEET_COLUMNS)
        c2 == ExtendIf(c1, kinds, "users", DEFAULT_USER_COLUMNS)
        c3 == ExtendIf(c2, kinds, "compliance", DEFAULT_COMPLIANCE_COLUMNS)
        c4 == ExtendIf(c3, kinds, "counts", Characters(DEFAULT_COUNTS_COLUMNS))
    IN  IF extra # <<>> THEN ExtendNew(c4, Split(extra, ",")) ELSE c4

\* lines 194-196: self.output_columns, the columns to_csv writes
OutputColumns(output, cols) == IF output # <<>> THEN Split(output, ",") ELSE cols

\* lines 213-214: the two column counters of self.counts, output being the
\* argument output_columns
ColumnCounts(output, cols) ==
    [input_columns |-> Len(cols), output_columns |-> Len(output)]

\* the converter __init__ leaves, cols being its self.columns
Constructed(a, cols) ==
    [columns        |-> cols,
     output_columns |-> OutputColumns(a.output_columns, cols),
     counts         |-> ColumnCounts(a.output_columns, cols)]

InputKinds == SUBSET {"tweets", "users", "compliance", "counts"}
ColumnTexts == UNION {[1..n -> {"i", "d", ","}] : n \in 0..MaxName}

InitColumns ==
    /\ cfg \in ObjectConfigs
    /\ arg \in [input_data_type : InputKinds, extra_input_columns : ColumnTexts,
                output_columns : ColumnTexts]
    /\ UnitInit

\* DataFrameConverter(input_data_type=..., extra_input_columns=...,
\* output_columns=...)
Construct ==
    /\ pc = "unit"
    /\ res' = Constructed(arg, SchemaColumns(arg.input_data_type, arg.extra_input_columns))
    /\ pc' = "constructed"
    /\ UNCHANGED <<cfg, infile, batch, counts, dataset_ids, first_batch, pending,
                   outfile, last, hist, arg, chunks, objs>>

NextColumns == Construct

SpecColumns == InitColumns /\ [][NextColumns]_vars

\* C21: in the counters a converter creates, output_columns is the number of
\* columns written in each row (the size of the output subset when one is
\* given, of self.columns otherwise) and input_columns is the number of
\* columns of self.columns, whatever the input kinds, the extra input
\* columns and the output subset.
C21_ColumnCountersCountColumns ==
    pc = "constructed" =>
        /\ res.counts.input_columns = Len(res.columns)
        /\ res.counts.output_columns = Len(res.output_columns)

======================================================================
